---------------------------- MODULE Spec2Model ----------------------------
(***************************************************************************)
(* Model of herr-jr (src/src/main.rs): a Telegram command bot with a       *)
(* per-chat todo store and a registered-users set behind two tokio         *)
(* mutexes, a daily scheduler task, a broadcast helper, and load/save of   *)
(* both collections to todo.json and users.txt.                            *)
(*                                                                         *)
(* Strings are sequences of one-character strings, so that formatting and  *)
(* parsing of chat ids and the JSON string escaping are computed.          *)
(***************************************************************************)
EXTENDS Integers, Sequences, FiniteSets

(***************************************************************************)
(* Bounds of the model.                                                    *)
(***************************************************************************)
\* commands the dispatcher hands to handlers while the clock stands still
MaxCmds == 3
\* commands the dispatcher hands to handlers while the clock runs
MaxDayCmds == 2
\* length of a chat's task list in the stores the save is tried on
MaxLen == 2
\* starts of the process (the first start and the restarts)
MaxRuns == 2
\* last instant of the model's clock
MaxClock == 4
MaxApiCmds == 2
MaxDays == 3
MaxLockCmds == 2

\* chat ids that send commands (a group chat has a negative id)
Chats == {-7, 12}
\* task texts; the second needs JSON escaping
Tasks == {<<"a">>, <<"\"", "\\">>}

(***************************************************************************)
(* Text conversions.                                                       *)
(***************************************************************************)
Digits == <<"0", "1", "2", "3", "4", "5", "6", "7", "8", "9">>

IsDigit(ch) == \E d \in 1..10 : Digits[d] = ch

DigitVal(ch) == (CHOOSE d \in 1..10 : Digits[d] = ch) - 1

RECURSIVE NatToString(_)
NatToString(n) ==
    IF n < 10 THEN <<Digits[n + 1]>>
    ELSE NatToString(n \div 10) \o <<Digits[(n % 10) + 1]>>

\* a formatting that loses the sign of a group chat's id
ChatIdToStringUnsigned(i) == NatToString(IF i < 0 THEN 0 - i ELSE i)

\* user.to_string(): Display of ChatId is the decimal of its i64
ChatIdToString(i) == IF i < 0 THEN <<"-">> \o NatToString(-i) ELSE NatToString(i)

RECURSIVE DigitsValue(_, _)
DigitsValue(s, acc) ==
    IF s = <<>> THEN acc
    ELSE DigitsValue(Tail(s), acc * 10 + DigitVal(Head(s)))

AllDigits(s) == \A k \in 1..Len(s) : IsDigit(s[k])

\* line.parse::<i64>(): optional sign, then at least one digit
ParseI64(s) ==
    LET body == IF s # <<>> /\ Head(s) \in {"-", "+"} THEN Tail(s) ELSE s
    IN  IF body = <<>> \/ ~AllDigits(body)
        THEN [ok |-> FALSE, val |-> 0]
        ELSE [ok |-> TRUE,
              val |-> IF Head(s) = "-" THEN 0 - DigitsValue(body, 0)
                      ELSE DigitsValue(body, 0)]

\* a map key of todo.json read as a ChatId: a JSON integer inside the string
ParseKey(s) ==
    LET body == IF s # <<>> /\ Head(s) = "-" THEN Tail(s) ELSE s
    IN  IF body = <<>> \/ ~AllDigits(body) \/ (Len(body) > 1 /\ Head(body) = "0")
        THEN [ok |-> FALSE, val |-> 0]
        ELSE [ok |-> TRUE,
              val |-> IF Head(s) = "-" THEN 0 - DigitsValue(body, 0)
                      ELSE DigitsValue(body, 0)]

RECURSIVE Join(_, _)
Join(strs, sep) ==
    IF strs = <<>> THEN <<>>
    ELSE IF Len(strs) = 1 THEN strs[1]
    ELSE strs[1] \o sep \o Join(Tail(strs), sep)

RECURSIVE SplitLines(_, _)
SplitLines(s, cur) ==
    IF s = <<>> THEN (IF cur = <<>> THEN <<>> ELSE <<cur>>)
    ELSE IF Head(s) = "\n" THEN <<cur>> \o SplitLines(Tail(s), <<>>)
    ELSE SplitLines(Tail(s), Append(cur, Head(s)))

\* content.lines()
Lines(content) == SplitLines(content, <<>>)

RECURSIVE Escape(_)
Escape(s) ==
    IF s = <<>> THEN <<>>
    ELSE IF Head(s) \in {"\"", "\\"} THEN <<"\\", Head(s)>> \o Escape(Tail(s))
    ELSE <<Head(s)>> \o Escape(Tail(s))

\* the text of a JSON string token, or a failure on a dangling backslash
RECURSIVE Unescape(_)
Unescape(s) ==
    IF s = <<>> THEN [ok |-> TRUE, val |-> <<>>]
    ELSE IF Head(s) = "\\"
         THEN IF Len(s) < 2 \/ s[2] \notin {"\"", "\\"}
              THEN [ok |-> FALSE, val |-> <<>>]
              ELSE LET r == Unescape(Tail(Tail(s)))
                   IN  [ok |-> r.ok, val |-> <<s[2]>> \o r.val]
    ELSE IF Head(s) = "\"" THEN [ok |-> FALSE, val |-> <<>>]
    ELSE LET r == Unescape(Tail(s))
         IN  [ok |-> r.ok, val |-> <<Head(s)>> \o r.val]

\* all orders in which a HashMap or HashSet may iterate over the elements of S
Orders(S) ==
    {o \in [1..Cardinality(S) -> S] : \A x \in S : \E k \in DOMAIN o : o[k] = x}

(***************************************************************************)
(* Snapshot files.  A file is missing, unreadable for another reason, or   *)
(* holds a text.  The text of users.txt is a character sequence; the text  *)
(* of todo.json is the sequence of the members of its JSON object, each a  *)
(* key string and an array of (escaped) string tokens.                     *)
(***************************************************************************)
Missing == [kind |-> "missing", text |-> <<>>]
Denied == [kind |-> "denied", text |-> <<>>]
FileOf(text) == [kind |-> "ok", text |-> text]

EmptyStore == [c \in {} |-> <<>>]

\* a push that is not keyed by the chat: every list gets the task
TodoPushShared(store, chat, task) ==
    [c \in DOMAIN store \cup {chat} |->
        (IF c \in DOMAIN store THEN store[c] ELSE <<>>) \o <<task>>]

\* a store that keeps only the newest task of a chat
TodoPut(store, chat, task) ==
    [c \in DOMAIN store \cup {chat} |->
        IF c = chat THEN <<task>> ELSE store[c]]

\* an insertion at the front of the chat's list instead of a push
TodoPushFront(store, chat, task) ==
    [c \in DOMAIN store \cup {chat} |->
        IF c = chat
        THEN <<task>> \o (IF chat \in DOMAIN store THEN store[chat] ELSE <<>>)
        ELSE store[c]]

\* todo_list.entry(chat).or_insert_with(Vec::new).push(task)
TodoPush(store, chat, task) ==
    [c \in DOMAIN store \cup {chat} |->
        IF c = chat
        THEN Append(IF chat \in DOMAIN store THEN store[chat] ELSE <<>>, task)
        ELSE store[c]]

\* to_string(&*todo_list), the members in the map's iteration order
EncodeTodo(store, order) ==
    [k \in 1..Len(order) |->
        [key |-> ChatIdToString(order[k]),
         val |-> [i \in 1..Len(store[order[k]]) |-> Escape(store[order[k]][i])]]]

\* from_str::<HashMap<ChatId, Vec<String>>>: a later duplicate key wins
RECURSIVE DecodeTodo(_, _)
DecodeTodo(members, acc) ==
    IF members = <<>> THEN [ok |-> TRUE, val |-> acc]
    ELSE LET m == Head(members)
             k == ParseKey(m.key)
             strs == [i \in 1..Len(m.val) |-> Unescape(m.val[i])]
         IN  IF ~k.ok \/ \E i \in 1..Len(m.val) : ~strs[i].ok
             THEN [ok |-> FALSE, val |-> EmptyStore]
             ELSE DecodeTodo(Tail(members),
                     [c \in DOMAIN acc \cup {k.val} |->
                         IF c = k.val THEN [i \in 1..Len(m.val) |-> strs[i].val]
                         ELSE acc[c]])

\* users_list.iter().map(to_string).collect::<Vec<String>>().join("\n")
EncodeUsers(order) ==
    Join([k \in 1..Len(order) |-> ChatIdToString(order[k])], <<"\n">>)

\* content.lines().map(parse::<i64>().unwrap()).collect(): fails on a bad line
DecodeUsers(content) ==
    LET ls == Lines(content)
        ps == [k \in 1..Len(ls) |-> ParseI64(ls[k])]
    IN  IF \E k \in 1..Len(ls) : ~ps[k].ok
        THEN [ok |-> FALSE, val |-> {}]
        ELSE [ok |-> TRUE, val |-> {ps[k].val : k \in 1..Len(ls)}]

\* the List reply body: "{i + 1}. {task}\n" for every task, in order
Numbered(list) == [i \in 1..Len(list) |-> <<i, list[i]>>]

(***************************************************************************)
(* The scheduler's clock, in units of eight hours: instant t is day        *)
(* t \div SlotsPerDay at 00:00, 08:00 or 16:00.                            *)
(***************************************************************************)
SlotsPerDay == 3
TargetSlot == 1

DateOf(t) == t \div SlotsPerDay

\* the next 08:00 to come: today's when now is before it
NextTimeUpcoming(now) ==
    IF now % SlotsPerDay < TargetSlot
    THEN DateOf(now) * SlotsPerDay + TargetSlot
    ELSE (DateOf(now) + 1) * SlotsPerDay + TargetSlot

\* today's 08:00: the day is not added
NextTimeToday(now) == DateOf(now) * SlotsPerDay + TargetSlot

\* (now.date() + Duration::days(1)).and_hms(8, 0, 0)
NextTime(now) == (DateOf(now) + 1) * SlotsPerDay + TargetSlot

(***************************************************************************)
(* State.                                                                  *)
(***************************************************************************)
Handlers == {"h1", "h2"}
Callers == {"main", "sched"}
Kinds == {"todo", "list", "coin"}
\* the commands that call an external API before they reply
ApiKinds == {"cat", "define", "useless", "weather"}

VARIABLES
    mainPc,      \* where main() is
    mainPanic,   \* the statement at which main() panicked, or "none"
    schedPc,     \* where the spawned scheduler task is
    schedPanic,  \* the statement at which the scheduler panicked, or "none"
    wakeAt,      \* next_time of the scheduler's current sleep
    clock,       \* Local::now()
    hpc,         \* where each handler task is
    hmsg,        \* the message and command each handler was given
    lines,       \* the List reply body each handler built
    users,       \* USERS_LIST
    todo,        \* TODO_LIST
    usersLock,   \* holder of the USERS_LIST mutex, or "free"
    todoLock,    \* holder of the TODO_LIST mutex, or "free"
    bcast,       \* send_to_all's loop state, per caller
    todoFile,    \* todo.json
    usersFile,   \* users.txt
    ncmds,       \* commands dispatched so far
    greeted,     \* greetings delivered to each chat in this run
    applied,     \* per chat, the texts of the Todo commands applied in this run
    fired,       \* scheduler wake-ups in this run
    days,        \* per cycle of this run: the day it woke, sent and was done
    run,         \* starts of the process so far
    prevExit,    \* how the previous process ended
    prevTodo,    \* TODO_LIST when the previous process ended
    prevUsers    \* USERS_LIST when the previous process ended

vars == <<mainPc, mainPanic, schedPc, schedPanic, wakeAt, clock, hpc, hmsg,
          lines, users, todo, usersLock, todoLock, bcast, todoFile, usersFile,
          ncmds, greeted, applied, fired, days, run, prevExit, prevTodo,
          prevUsers>>

procVars == <<mainPc, mainPanic, schedPc, schedPanic, wakeAt>>
handlerVars == <<hpc, hmsg, lines, ncmds, greeted, applied>>
storeVars == <<users, todo, usersLock, todoLock>>
runVars == <<run, prevExit, prevTodo, prevUsers>>
fileVars == <<todoFile, usersFile, runVars>>

\* a parsed command with the chat it came from; only Todo carries a text
Msgs ==
    [chat : Chats, kind : {"todo"}, task : Tasks]
        \cup [chat : Chats, kind : Kinds \ {"todo"}, task : {<<>>}]
\* the word of Define only goes into the URL: it is not kept
ApiMsgs == [chat : Chats, kind : ApiKinds, task : {<<>>}]
NoMsg == [kind |-> "none"]
\* view: USERS_LIST as the loop found it; rest: the chats not yet reached;
\* cur: the chat whose send is in flight, if any; got: per chat, the sends of
\* this call that returned Ok
NoneGot == [u \in Chats |-> 0]
IdleBcast == [view |-> {}, rest |-> {}, cur |-> {}, got |-> NoneGot]
\* no scheduler cycle yet
NoDays == [woke |-> <<>>, sent |-> <<>>, done |-> <<>>]

\* main() has neither returned nor panicked: the runtime and its tasks live
Alive == mainPc \notin {"exited", "panicked"}

\* a handler task that ended by a panic stays in that state
Crashed(h) == hpc[h] \in {"greet_panicked", "list_panicked", "api_panicked"}

Running(h) == hpc[h] # "idle" /\ ~Crashed(h)

\* answer returned (Ok or Err): the task is gone
Returned(h) ==
    /\ hpc' = [hpc EXCEPT ![h] = "idle"]
    /\ hmsg' = [hmsg EXCEPT ![h] = NoMsg]
    /\ lines' = [lines EXCEPT ![h] = <<>>]

(***************************************************************************)
(* Initial state: the process has started and is about to read todo.json.  *)
(***************************************************************************)
\* the first start of a fresh installation, at some time of day 0
Init ==
    /\ mainPc = "load_todo"
    /\ mainPanic = "none"
    /\ schedPc = "unspawned"
    /\ schedPanic = "none"
    /\ wakeAt = 0
    /\ clock \in 0..(SlotsPerDay - 1)
    /\ hpc = [h \in Handlers |-> "idle"]
    /\ hmsg = [h \in Handlers |-> NoMsg]
    /\ lines = [h \in Handlers |-> <<>>]
    /\ users = {}
    /\ todo = EmptyStore
    /\ usersLock = "free"
    /\ todoLock = "free"
    /\ bcast = [c \in Callers |-> IdleBcast]
    /\ todoFile = Missing
    /\ usersFile = Missing
    /\ ncmds = 0
    /\ greeted = [c \in Chats |-> 0]
    /\ applied = [c \in Chats |-> <<>>]
    /\ fired = 0
    /\ days = NoDays
    /\ run = 1
    /\ prevExit = "none"
    /\ prevTodo = EmptyStore
    /\ prevUsers = {}

\* the operator starts the program again after it ended
Restart ==
    /\ ~Alive
    /\ run < MaxRuns
    /\ run' = run + 1
    /\ prevExit' = mainPc
    /\ prevTodo' = todo
    /\ prevUsers' = users
    /\ mainPc' = "load_todo"
    /\ mainPanic' = "none"
    /\ schedPc' = "unspawned"
    /\ schedPanic' = "none"
    /\ wakeAt' = 0
    /\ hpc' = [h \in Handlers |-> "idle"]
    /\ hmsg' = [h \in Handlers |-> NoMsg]
    /\ lines' = [h \in Handlers |-> <<>>]
    /\ users' = {}
    /\ todo' = EmptyStore
    /\ usersLock' = "free"
    /\ todoLock' = "free"
    /\ bcast' = [c \in Callers |-> IdleBcast]
    /\ greeted' = [c \in Chats |-> 0]
    /\ applied' = [c \in Chats |-> <<>>]
    /\ fired' = 0
    /\ days' = NoDays
    /\ UNCHANGED <<clock, ncmds, todoFile, usersFile>>

\* texts no load can decode: a key that is no chat id, an empty line
GarbledTodo == <<[key |-> <<"x">>, val |-> <<>>]>>
GarbledUsers == <<"1", "2", "\n", "\n", "7">>

\* while the program is down a snapshot is removed, made unreadable or damaged
Damage(which, how) ==
    /\ ~Alive
    /\ run < MaxRuns
    /\ which \in {"todo", "users"}
    /\ LET file == IF which = "todo" THEN todoFile ELSE usersFile
           garbled == IF which = "todo" THEN GarbledTodo ELSE GarbledUsers
           new == IF how = "remove" THEN Missing
                  ELSE IF how = "deny" THEN Denied
                  ELSE FileOf(garbled)
       IN  /\ file.kind = "ok"
           /\ file.text # garbled
           /\ IF which = "todo"
              THEN todoFile' = new /\ UNCHANGED usersFile
              ELSE usersFile' = new /\ UNCHANGED todoFile
    /\ UNCHANGED <<procVars, clock, handlerVars, storeVars, bcast, runVars, fired, days>>

(***************************************************************************)
(* main(): loading the snapshots.                                          *)
(***************************************************************************)
MainPanics(at) ==
    /\ mainPc' = "panicked"
    /\ mainPanic' = at

\* match std::fs::read_to_string("todo.json"): the content is decoded
\* (from_str(..).unwrap()), a read error of a kind in fatal panics, any other
\* is logged
LoadTodoOr(fatal) ==
    /\ mainPc = "load_todo"
    /\ IF todoFile.kind = "ok"
       THEN LET r == DecodeTodo(todoFile.text, EmptyStore)
            IN  IF r.ok
                THEN /\ todo' = r.val
                     /\ mainPc' = "load_users"
                     /\ UNCHANGED mainPanic
                ELSE /\ MainPanics("load_todo")
                     /\ UNCHANGED todo
       ELSE IF todoFile.kind \in fatal
       THEN /\ MainPanics("load_todo")
            /\ UNCHANGED todo
       ELSE /\ mainPc' = "load_users"
            /\ UNCHANGED <<todo, mainPanic>>
    /\ UNCHANGED <<schedPc, schedPanic, wakeAt, clock, handlerVars, users,
                   usersLock, todoLock, bcast, fileVars, fired, days>>

\* a load that unwraps the read itself
LoadTodoUnwrap == LoadTodoOr({"missing", "denied"})

\* the NotFound arm and the other-error arm both only log
LoadTodo == LoadTodoOr({})

\* match std::fs::read_to_string("users.txt"), the same way
LoadUsersOr(fatal) ==
    /\ mainPc = "load_users"
    /\ IF usersFile.kind = "ok"
       THEN LET r == DecodeUsers(usersFile.text)
            IN  IF r.ok
                THEN /\ users' = r.val
                     /\ mainPc' = "start_bcast"
                     /\ UNCHANGED mainPanic
                ELSE /\ MainPanics("load_users")
                     /\ UNCHANGED users
       ELSE IF usersFile.kind \in fatal
       THEN /\ MainPanics("load_users")
            /\ UNCHANGED users
       ELSE /\ mainPc' = "start_bcast"
            /\ UNCHANGED <<users, mainPanic>>
    /\ UNCHANGED <<schedPc, schedPanic, wakeAt, clock, handlerVars, todo,
                   usersLock, todoLock, bcast, fileVars, fired, days>>

LoadUsers == LoadUsersOr({})

(***************************************************************************)
(* send_to_all, run by main() (start and shutdown) and by the scheduler.   *)
(* The guard of USERS_LIST lives for the whole for loop.                   *)
(***************************************************************************)
CallerPc(c) == IF c = "main" THEN mainPc ELSE schedPc

\* the caller's position once send_to_all has returned
AfterBcast(c, pc) ==
    IF c = "sched" THEN "compute"
    ELSE IF pc \in {"start_bcast", "start_sending"} THEN "repl"
    ELSE "save_todo"

Sending(pc) ==
    IF pc \in {"start_bcast", "start_sending"} THEN "start_sending"
    ELSE IF pc \in {"stop_bcast", "stop_sending"} THEN "stop_sending"
    ELSE "sending"

\* the caller moves to pc; main() spawns the scheduler after the start broadcast
CallerMoves(c, pc) ==
    IF c = "main"
    THEN /\ mainPc' = pc
         /\ schedPc' = IF pc = "repl" THEN "compute" ELSE schedPc
         /\ UNCHANGED <<mainPanic, schedPanic>>
    ELSE /\ schedPc' = pc
         /\ UNCHANGED <<mainPc, mainPanic, schedPanic>>

\* USERS_LIST.lock().await, then the first bot.send_message(...) is in flight
BcastBegin(c) ==
    /\ Alive
    /\ CallerPc(c) \in {"start_bcast", "stop_bcast", "bcast"}
    /\ usersLock = "free"
    /\ IF users = {}
       THEN /\ CallerMoves(c, AfterBcast(c, CallerPc(c)))
            /\ bcast' = [bcast EXCEPT ![c] = IdleBcast]
            /\ UNCHANGED usersLock
       ELSE /\ \E u \in users :
                 bcast' = [bcast EXCEPT
                             ![c] = [view |-> users, rest |-> users \ {u},
                                     cur |-> {u}, got |-> NoneGot]]
            /\ usersLock' = c
            /\ CallerMoves(c, Sending(CallerPc(c)))
    /\ UNCHANGED <<wakeAt, clock, handlerVars, users, todo, todoLock, fileVars,
                   fired, days>>

\* the counts after one more send to the chats of cur returned Ok
Delivered(got, cur) == [u \in Chats |-> IF u \in cur THEN got[u] + 1 ELSE got[u]]

\* a send returned Ok: the next one starts, or the loop ends and the guard drops
BcastSendOk(c) ==
    /\ Alive
    /\ CallerPc(c) \in {"start_sending", "stop_sending", "sending"}
    /\ IF bcast[c].rest = {}
       THEN /\ CallerMoves(c, AfterBcast(c, CallerPc(c)))
            /\ bcast' = [bcast EXCEPT ![c].cur = {},
                                      ![c].got = Delivered(@, bcast[c].cur)]
            /\ usersLock' = "free"
       ELSE /\ \E u \in bcast[c].rest :
                 bcast' = [bcast EXCEPT ![c].rest = @ \ {u}, ![c].cur = {u},
                                        ![c].got = Delivered(@, bcast[c].cur)]
            /\ UNCHANGED <<procVars, usersLock>>
    /\ UNCHANGED <<wakeAt, clock, handlerVars, users, todo, todoLock, fileVars,
                   fired, days>>

\* a send returned Err: .unwrap() panics, the unwinding drops the guard
BcastSendFail(c) ==
    /\ Alive
    /\ CallerPc(c) \in {"start_sending", "stop_sending", "sending"}
    /\ IF c = "main"
       THEN /\ MainPanics(IF mainPc = "start_sending" THEN "start_send"
                          ELSE "stop_send")
            /\ UNCHANGED <<schedPc, schedPanic>>
       ELSE /\ schedPc' = "panicked"
            /\ schedPanic' = "send"
            /\ UNCHANGED <<mainPc, mainPanic>>
    /\ usersLock' = "free"
    /\ UNCHANGED <<wakeAt, clock, handlerVars, users, todo, todoLock, bcast,
                   fileVars, fired, days>>

(***************************************************************************)
(* The scheduler task spawned by main().                                   *)
(***************************************************************************)
\* now = Local::now(); next_time; the duration, or zero when it is negative
SchedCompute ==
    /\ Alive
    /\ schedPc = "compute"
    /\ wakeAt' = IF NextTime(clock) > clock THEN NextTime(clock) ELSE clock
    /\ schedPc' = "sleep"
    /\ days' = IF Len(days.done) < Len(days.woke)
               THEN [days EXCEPT !.done = Append(@, DateOf(clock))]
               ELSE days
    /\ UNCHANGED <<mainPc, mainPanic, schedPanic, clock, handlerVars, storeVars,
                   bcast, fileVars, fired>>

\* sleep(duration).await returns; reqwest::get(...) is in flight
SchedWake ==
    /\ Alive
    /\ schedPc = "sleep"
    /\ clock >= wakeAt
    /\ schedPc' = "fetch"
    /\ fired' = fired + 1
    /\ days' = [days EXCEPT !.woke = Append(@, DateOf(clock))]
    /\ UNCHANGED <<mainPc, mainPanic, schedPanic, wakeAt, clock, handlerVars,
                   storeVars, bcast, fileVars>>

\* the weather text arrived: send_to_all is called
SchedFetchOk ==
    /\ Alive
    /\ schedPc = "fetch"
    /\ schedPc' = "bcast"
    /\ days' = [days EXCEPT !.sent = Append(@, DateOf(clock))]
    /\ UNCHANGED <<mainPc, mainPanic, schedPanic, wakeAt, clock, handlerVars,
                   storeVars, bcast, fileVars, fired>>

\* reqwest::get(...).await.unwrap() or resp.text().await.unwrap() panics
SchedFetchFail ==
    /\ Alive
    /\ schedPc = "fetch"
    /\ schedPc' = "panicked"
    /\ schedPanic' = "fetch"
    /\ UNCHANGED <<mainPc, mainPanic, wakeAt, clock, handlerVars, storeVars,
                   bcast, fileVars, fired, days>>

\* time passes
Tick ==
    /\ Alive
    /\ clock < MaxClock
    /\ clock' = clock + 1
    /\ UNCHANGED <<procVars, handlerVars, storeVars, bcast, fileVars, fired, days>>

(***************************************************************************)
(* answer(bot, msg, cmd), one task per command the dispatcher hands out.   *)
(***************************************************************************)
\* the first await of the command's match arm
ArmPc(kind) ==
    IF kind = "todo" THEN "todo_lock"
    ELSE IF kind = "list" THEN "list_lock"
    ELSE IF kind \in ApiKinds THEN "fetch_wait"
    ELSE "reply_wait"

\* Command::repl hands a parsed command to answer
Dispatch(h, m, limit) ==
    /\ mainPc = "repl"
    /\ hpc[h] = "idle"
    /\ ncmds < limit
    /\ ncmds' = ncmds + 1
    /\ hpc' = [hpc EXCEPT ![h] = "check"]
    /\ hmsg' = [hmsg EXCEPT ![h] = m]
    /\ lines' = [lines EXCEPT ![h] = <<>>]
    /\ UNCHANGED <<procVars, clock, greeted, applied, storeVars, bcast, fileVars,
                   fired, days>>

\* the test with its sense inverted
RegisteredInverted(set, chat) == chat \notin set

\* !USERS_LIST.lock().await.contains(&msg.chat.id): the guard drops with the condition
Registered(set, chat) == chat \in set

\* a test whose guard lives on into the block, as the scrutinee of a match would
CheckUserKeepsGuard(h) ==
    /\ Alive
    /\ hpc[h] = "check"
    /\ usersLock = "free"
    /\ hpc' = [hpc EXCEPT ![h] = IF Registered(users, hmsg[h].chat)
                                  THEN ArmPc(hmsg[h].kind) ELSE "insert"]
    /\ usersLock' = IF Registered(users, hmsg[h].chat) THEN "free" ELSE h
    /\ UNCHANGED <<procVars, clock, hmsg, lines, ncmds, greeted, applied, users,
                   todo, todoLock, bcast, fileVars, fired, days>>

CheckUser(h) ==
    /\ Alive
    /\ hpc[h] = "check"
    /\ usersLock = "free"
    /\ hpc' = [hpc EXCEPT ![h] = IF Registered(users, hmsg[h].chat)
                                  THEN ArmPc(hmsg[h].kind) ELSE "insert"]
    /\ UNCHANGED <<procVars, clock, hmsg, lines, ncmds, greeted, applied, storeVars,
                   bcast, fileVars, fired, days>>

\* USERS_LIST.lock().await.insert(msg.chat.id); the greeting is formatted
\* (expect panics when the sender has no username) and its send is in flight
InsertUser(h, named) ==
    /\ Alive
    /\ hpc[h] = "insert"
    /\ usersLock = "free"
    /\ users' = users \cup {hmsg[h].chat}
    /\ hpc' = [hpc EXCEPT ![h] = IF named THEN "greet_wait" ELSE "greet_panicked"]
    /\ UNCHANGED <<procVars, clock, hmsg, lines, ncmds, greeted, applied, todo, usersLock,
                   todoLock, bcast, fileVars, fired, days>>

GreetOk(h) ==
    /\ Alive
    /\ hpc[h] = "greet_wait"
    /\ greeted' = [greeted EXCEPT ![hmsg[h].chat] = @ + 1]
    /\ hpc' = [hpc EXCEPT ![h] = ArmPc(hmsg[h].kind)]
    /\ UNCHANGED <<procVars, clock, hmsg, lines, ncmds, applied, storeVars, bcast,
                   fileVars, fired, days>>

\* bot.send_message(...).await? returns the error from answer
GreetFail(h) ==
    /\ Alive
    /\ hpc[h] = "greet_wait"
    /\ Returned(h)
    /\ UNCHANGED <<procVars, clock, ncmds, greeted, applied, storeVars, bcast, fileVars,
                   fired, days>>

\* a Todo arm that also writes todo.json after the push
TodoAppendWriteThrough(h) ==
    /\ Alive
    /\ hpc[h] = "todo_lock"
    /\ todoLock = "free"
    /\ todoLock' = h
    /\ todo' = TodoPush(todo, hmsg[h].chat, hmsg[h].task)
    /\ \E order \in Orders(DOMAIN todo') :
          todoFile' = FileOf(EncodeTodo(todo', order))
    /\ applied' = [applied EXCEPT ![hmsg[h].chat] = Append(@, hmsg[h].task)]
    /\ hpc' = [hpc EXCEPT ![h] = "todo_wait"]
    /\ UNCHANGED <<procVars, clock, hmsg, lines, ncmds, greeted, users,
                   usersLock, bcast, usersFile, runVars, fired, days>>

\* Command::Todo: lock, push, and the reply's send is in flight under the guard
TodoAppend(h) ==
    /\ Alive
    /\ hpc[h] = "todo_lock"
    /\ todoLock = "free"
    /\ todoLock' = h
    /\ todo' = TodoPush(todo, hmsg[h].chat, hmsg[h].task)
    /\ applied' = [applied EXCEPT ![hmsg[h].chat] = Append(@, hmsg[h].task)]
    /\ hpc' = [hpc EXCEPT ![h] = "todo_wait"]
    /\ UNCHANGED <<procVars, clock, hmsg, lines, ncmds, greeted, users,
                   usersLock, bcast, fileVars, fired, days>>

\* the reply returned (Ok, or Err through ?): the arm ends and the guard drops
TodoReply(h, ok) ==
    /\ Alive
    /\ hpc[h] = "todo_wait"
    /\ ok \in BOOLEAN
    /\ todoLock' = "free"
    /\ Returned(h)
    /\ UNCHANGED <<procVars, clock, ncmds, greeted, applied, users, todo, usersLock,
                   bcast, fileVars, fired, days>>

\* (TODO_LIST.lock().await)[&msg.chat.id]: Index panics on a missing key
HasList(store, chat) == chat \in DOMAIN store

\* the tasks TODO_LIST holds for a chat: none when it has no entry
StoredList(store, chat) == IF HasList(store, chat) THEN store[chat] ELSE <<>>

\* Command::List: the body is built under the guard, then the send is in flight
ListRead(h) ==
    /\ Alive
    /\ hpc[h] = "list_lock"
    /\ todoLock = "free"
    /\ IF HasList(todo, hmsg[h].chat)
       THEN /\ lines' = [lines EXCEPT ![h] = Numbered(todo[hmsg[h].chat])]
            /\ hpc' = [hpc EXCEPT ![h] = "reply_wait"]
       ELSE /\ hpc' = [hpc EXCEPT ![h] = "list_panicked"]
            /\ UNCHANGED lines
    /\ UNCHANGED <<procVars, clock, hmsg, ncmds, greeted, applied, storeVars, bcast,
                   fileVars, fired, days>>

\* how an external call can end: the expected body arrived; the request or
\* the decoding of the body returned Err; the body decoded but has not the
\* shape the handler indexes and unwraps (wttr.in's text has no shape)
ApiOutcomes(kind) ==
    IF kind = "weather" THEN {"ok", "err"} ELSE {"ok", "err", "shape"}

\* where answer is after the call: replying with the result, panicked in an
\* unwrap, replying "Failed to fetch cat image.", or returned Err through ?
AfterFetch(kind, outcome) ==
    IF outcome = "ok" THEN "reply_wait"
    ELSE IF outcome = "shape" THEN "api_panicked"
    ELSE IF kind = "cat" THEN "fail_wait"
    ELSE "idle"

\* Cat, Define, Useless, Weather: reqwest::get(...) and the body returned
ApiFetch(h, outcome) ==
    /\ Alive
    /\ hpc[h] = "fetch_wait"
    /\ outcome \in ApiOutcomes(hmsg[h].kind)
    /\ LET pc == AfterFetch(hmsg[h].kind, outcome)
       IN  IF pc = "idle"
           THEN Returned(h)
           ELSE /\ hpc' = [hpc EXCEPT ![h] = pc]
                /\ UNCHANGED <<hmsg, lines>>
    /\ UNCHANGED <<procVars, clock, ncmds, greeted, applied, storeVars, bcast, fileVars,
                   fired, days>>

\* the send of the failure text returned
FailReply(h, ok) ==
    /\ Alive
    /\ hpc[h] = "fail_wait"
    /\ ok \in BOOLEAN
    /\ Returned(h)
    /\ UNCHANGED <<procVars, clock, ncmds, greeted, applied, storeVars, bcast, fileVars,
                   fired, days>>

\* the reply of List, Coin or an API command returned
Reply(h, ok) ==
    /\ Alive
    /\ hpc[h] = "reply_wait"
    /\ ok \in BOOLEAN
    /\ Returned(h)
    /\ UNCHANGED <<procVars, clock, ncmds, greeted, applied, storeVars, bcast, fileVars,
                   fired, days>>

(***************************************************************************)
(* main(): the command loop ends, the shutdown broadcast, the save.        *)
(***************************************************************************)
\* Command::repl(...).await returns once no handler is running
ReplStop ==
    /\ mainPc = "repl"
    /\ \A h \in Handlers : ~Running(h)
    /\ mainPc' = "stop_bcast"
    /\ UNCHANGED <<mainPanic, schedPc, schedPanic, wakeAt, clock, handlerVars,
                   storeVars, bcast, fileVars, fired, days>>

\* TODO_LIST.lock().await (kept to the end of main), to_string, fs::write.unwrap
SaveTodo(ok) ==
    /\ mainPc = "save_todo"
    /\ todoLock = "free"
    /\ IF ok
       THEN /\ \E order \in Orders(DOMAIN todo) :
                 todoFile' = FileOf(EncodeTodo(todo, order))
            /\ todoLock' = "main"
            /\ mainPc' = "save_users"
            /\ UNCHANGED mainPanic
       ELSE /\ MainPanics("write_todo")
            /\ UNCHANGED <<todoFile, todoLock>>
    /\ UNCHANGED <<schedPc, schedPanic, wakeAt, clock, handlerVars, users, todo,
                   usersLock, bcast, usersFile, runVars, fired, days>>

\* USERS_LIST.lock().await.clone(), join, fs::write.expect; main returns
SaveUsers(ok) ==
    /\ mainPc = "save_users"
    /\ usersLock = "free"
    /\ IF ok
       THEN /\ \E order \in Orders(users) :
                 usersFile' = FileOf(EncodeUsers(order))
            /\ mainPc' = "exited"
            /\ UNCHANGED mainPanic
       ELSE /\ MainPanics("write_users")
            /\ UNCHANGED usersFile
    /\ todoLock' = "free"
    /\ UNCHANGED <<schedPc, schedPanic, wakeAt, clock, handlerVars, users, todo,
                   usersLock, bcast, todoFile, runVars, fired, days>>

(***************************************************************************)
(* The program.  Next is every step of the program and of its              *)
(* surroundings.  ShortNext is the steps of the runs that end before the   *)
(* scheduler's first wake-up: the clock stands still and more commands     *)
(* arrive.                                                                 *)
(***************************************************************************)
MainStep ==
    \/ LoadTodo
    \/ LoadUsers
    \/ ReplStop
    \/ \E ok \in BOOLEAN : SaveTodo(ok)
    \/ \E ok \in BOOLEAN : SaveUsers(ok)

HandlerStep ==
    \/ \E h \in Handlers : CheckUser(h)
    \/ \E h \in Handlers, named \in BOOLEAN : InsertUser(h, named)
    \/ \E h \in Handlers : GreetOk(h)
    \/ \E h \in Handlers : GreetFail(h)
    \/ \E h \in Handlers : TodoAppend(h)
    \/ \E h \in Handlers, ok \in BOOLEAN : TodoReply(h, ok)
    \/ \E h \in Handlers : ListRead(h)
    \/ \E h \in Handlers, ok \in BOOLEAN : Reply(h, ok)

OutsideStep ==
    \/ Restart
    \/ \E which \in {"todo", "users"}, how \in {"remove", "deny", "garble"} :
          Damage(which, how)

Next ==
    \/ MainStep
    \/ HandlerStep
    \/ \E h \in Handlers, m \in Msgs : Dispatch(h, m, MaxDayCmds)
    \/ \E c \in Callers : BcastBegin(c)
    \/ \E c \in Callers : BcastSendOk(c)
    \/ \E c \in Callers : BcastSendFail(c)
    \/ SchedCompute
    \/ SchedWake
    \/ SchedFetchOk
    \/ SchedFetchFail
    \/ Tick

Spec == Init /\ [][Next]_vars

(***************************************************************************)
(* The locks under the scheduling the runtime gives: a task that can take  *)
(* a step is polled in the end, a mutex that is free is handed to a        *)
(* waiter, and a network call returns.  main() is in the command loop with *)
(* the users of users.txt loaded, the scheduler's sleep has just run out,  *)
(* and Todo commands arrive.  When they arrive and when the operator stops *)
(* the command loop stay open.                                             *)
(***************************************************************************)
LockMsgs == [chat : Chats, kind : {"todo"}, task : {<<"a">>}]

LockInit ==
    /\ mainPc = "repl"
    /\ mainPanic = "none"
    /\ schedPc = "sleep"
    /\ schedPanic = "none"
    /\ wakeAt = NextTime(0)
    /\ clock = wakeAt
    /\ hpc = [h \in Handlers |-> "idle"]
    /\ hmsg = [h \in Handlers |-> NoMsg]
    /\ lines = [h \in Handlers |-> <<>>]
    /\ users \in SUBSET Chats
    /\ todo = EmptyStore
    /\ usersLock = "free"
    /\ todoLock = "free"
    /\ bcast = [c \in Callers |-> IdleBcast]
    /\ todoFile = Missing
    /\ usersFile \in IF users = {} THEN {Missing}
                     ELSE {FileOf(EncodeUsers(order)) : order \in Orders(users)}
    /\ ncmds = 0
    /\ greeted = [c \in Chats |-> 0]
    /\ applied = [c \in Chats |-> <<>>]
    /\ fired = 0
    /\ days = NoDays
    /\ run = 1
    /\ prevExit = "none"
    /\ prevTodo = EmptyStore
    /\ prevUsers = {}

TodoHandlerRuns(h) ==
    \/ CheckUser(h)
    \/ \E named \in BOOLEAN : InsertUser(h, named)
    \/ GreetOk(h)
    \/ GreetFail(h)
    \/ TodoAppend(h)
    \/ \E ok \in BOOLEAN : TodoReply(h, ok)

CallerRuns(c) ==
    \/ BcastBegin(c)
    \/ BcastSendOk(c)
    \/ BcastSendFail(c)

FlushRuns ==
    \/ \E ok \in BOOLEAN : SaveTodo(ok)
    \/ \E ok \in BOOLEAN : SaveUsers(ok)

LockNext ==
    \/ \E h \in Handlers, m \in LockMsgs : Dispatch(h, m, MaxLockCmds)
    \/ \E h \in Handlers : TodoHandlerRuns(h)
    \/ \E c \in Callers : CallerRuns(c)
    \/ SchedWake
    \/ SchedFetchOk
    \/ SchedCompute
    \/ ReplStop
    \/ FlushRuns

LockSpec ==
    /\ LockInit
    /\ [][LockNext]_vars
    /\ \A h \in Handlers : WF_vars(TodoHandlerRuns(h))
    /\ \A c \in Callers : WF_vars(CallerRuns(c))
    /\ WF_vars(FlushRuns)

ShortNext ==
    \/ MainStep
    \/ HandlerStep
    \/ \E h \in Handlers, m \in Msgs : Dispatch(h, m, MaxCmds)
    \/ BcastBegin("main")
    \/ BcastSendOk("main")
    \/ BcastSendFail("main")
    \/ SchedCompute

\* a start at midnight
ShortInit == Init /\ clock = 0

ShortSpec == ShortInit /\ [][ShortNext]_vars

(***************************************************************************)
(* The same short runs with the commands that call an external API.        *)
(***************************************************************************)
ApiNext ==
    \/ LoadTodo
    \/ LoadUsers
    \/ ReplStop
    \/ \E ok \in BOOLEAN : SaveTodo(ok)
    \/ \E ok \in BOOLEAN : SaveUsers(ok)
    \/ \E h \in Handlers, m \in ApiMsgs : Dispatch(h, m, MaxApiCmds)
    \/ \E h \in Handlers : CheckUser(h)
    \/ \E h \in Handlers, named \in BOOLEAN : InsertUser(h, named)
    \/ \E h \in Handlers : GreetOk(h)
    \/ \E h \in Handlers : GreetFail(h)
    \/ \E h \in Handlers, outcome \in {"ok", "err", "shape"} : ApiFetch(h, outcome)
    \/ \E h \in Handlers, ok \in BOOLEAN : FailReply(h, ok)
    \/ \E h \in Handlers, ok \in BOOLEAN : Reply(h, ok)
    \/ BcastBegin("main")
    \/ BcastSendOk("main")
    \/ BcastSendFail("main")
    \/ SchedCompute

ApiSpec == ShortInit /\ [][ApiNext]_vars

(***************************************************************************)
(* The scheduler over several days, in a process that keeps running and    *)
(* whose fetches and sends all succeed.  main() has loaded users.txt, made *)
(* the start broadcast and spawned the scheduler, which has computed its   *)
(* first target at some time of day 0 and sleeps.  A sleep ends when its   *)
(* time has come; a fetch and a send take any time.                        *)
(***************************************************************************)
DayInit ==
    /\ mainPc = "repl"
    /\ mainPanic = "none"
    /\ schedPc = "sleep"
    /\ schedPanic = "none"
    /\ clock \in 0..(SlotsPerDay - 1)
    /\ wakeAt = NextTime(clock)
    /\ hpc = [h \in Handlers |-> "idle"]
    /\ hmsg = [h \in Handlers |-> NoMsg]
    /\ lines = [h \in Handlers |-> <<>>]
    /\ users \in (SUBSET Chats) \ {{}}
    /\ todo = EmptyStore
    /\ usersLock = "free"
    /\ todoLock = "free"
    /\ bcast = [c \in Callers |-> IdleBcast]
    /\ todoFile = Missing
    /\ usersFile \in {FileOf(EncodeUsers(order)) : order \in Orders(users)}
    /\ ncmds = 0
    /\ greeted = [c \in Chats |-> 0]
    /\ applied = [c \in Chats |-> <<>>]
    /\ fired = 0
    /\ days = NoDays
    /\ run = 1
    /\ prevExit = "none"
    /\ prevTodo = EmptyStore
    /\ prevUsers = {}

\* time passes, but not past the end of a sleep: tokio wakes the task then
DayTick ==
    /\ Alive
    /\ clock < MaxDays * SlotsPerDay
    /\ ~(schedPc = "sleep" /\ clock >= wakeAt)
    /\ clock' = clock + 1
    /\ UNCHANGED <<procVars, handlerVars, storeVars, bcast, fileVars, fired, days>>

DayNext ==
    \/ SchedCompute
    \/ SchedWake
    \/ SchedFetchOk
    \/ BcastBegin("sched")
    \/ BcastSendOk("sched")
    \/ DayTick

DaySpec == DayInit /\ [][DayNext]_vars

(***************************************************************************)
(* Save and load on their own: the program is about to write its           *)
(* snapshots, with any stores within the bounds in memory, and is then     *)
(* started again.                                                          *)
(***************************************************************************)
RECURSIVE SeqsUpTo(_, _)
SeqsUpTo(S, n) ==
    IF n = 0 THEN {<<>>}
    ELSE LET shorter == SeqsUpTo(S, n - 1)
         IN  shorter \cup {Append(q, x) : q \in shorter, x \in S}

Stores == UNION {[D -> SeqsUpTo(Tasks, MaxLen)] : D \in SUBSET Chats}

PersistInit ==
    /\ mainPc = "save_todo"
    /\ mainPanic = "none"
    /\ schedPc = "sleep"
    /\ schedPanic = "none"
    /\ wakeAt = NextTime(0)
    /\ clock = 0
    /\ hpc = [h \in Handlers |-> "idle"]
    /\ hmsg = [h \in Handlers |-> NoMsg]
    /\ lines = [h \in Handlers |-> <<>>]
    /\ users \in SUBSET Chats
    /\ todo \in Stores
    /\ usersLock = "free"
    /\ todoLock = "free"
    /\ bcast = [c \in Callers |-> IdleBcast]
    /\ todoFile = Missing
    /\ usersFile = Missing
    /\ ncmds = 0
    /\ greeted = [c \in Chats |-> 0]
    /\ applied = [c \in Chats |-> <<>>]
    /\ fired = 0
    /\ days = NoDays
    /\ run = 1
    /\ prevExit = "none"
    /\ prevTodo = EmptyStore
    /\ prevUsers = {}

PersistNext ==
    \/ \E ok \in BOOLEAN : SaveTodo(ok)
    \/ \E ok \in BOOLEAN : SaveUsers(ok)
    \/ OutsideStep
    \/ LoadTodo
    \/ LoadUsers

PersistSpec == PersistInit /\ [][PersistNext]_vars

(***************************************************************************)
(* Properties.                                                             *)
(***************************************************************************)
NetWaits == {"greet_wait", "todo_wait", "reply_wait", "fetch_wait", "fail_wait"}

\* C1: the handler of a List command never ends in a crash: no List handler
\* panics on the lookup of its chat's list.
C1_ListNeverCrashes == \A h \in Handlers : hpc[h] # "list_panicked"

\* C2: when a List handler for chat c reads the store, the body it builds is
\* exactly the texts of the Todo commands applied for c so far, in the order
\* they were applied, numbered from 1 (c's list was empty at the start).
C2_ListShowsTodosInOrder ==
    [][\A h \in Handlers :
          (hpc[h] = "list_lock" /\ hpc'[h] = "reply_wait")
              => LET done == applied[hmsg[h].chat]
                 IN  lines'[h] = [i \in 1..Len(done) |-> <<i, done[i]>>]]_vars

\* a List reply in flight that shows two different tasks, while the other chat
\* has a list of its own
C2_Witness ==
    \E h \in Handlers :
        /\ hpc[h] = "reply_wait"
        /\ hmsg[h].kind = "list"
        /\ Len(lines[h]) = 2
        /\ lines[h][1][2] # lines[h][2][2]
        /\ lines[h] = Numbered(applied[hmsg[h].chat])

\* C3: the greeting is delivered to a chat at most once in a run.
C3_GreetedAtMostOnce == \A c \in Chats : greeted[c] <= 1

\* C4: a failed send never ends send_to_all: no caller panics on a send, and
\* a broadcast that is over has attempted every recipient of its view.
C4_BroadcastSurvivesFailedSend ==
    /\ mainPanic \notin {"start_send", "stop_send"}
    /\ schedPanic # "send"
    /\ \A c \in Callers :
          CallerPc(c) \notin {"start_sending", "stop_sending", "sending"}
              => bcast[c].rest = {}

\* C5: a failed weather fetch never stops the scheduler task.
C5_SchedulerSurvivesFailedFetch == schedPanic # "fetch"

\* C6: a task that waits on a network call (a send or a fetch) holds neither
\* the TODO_LIST lock nor the USERS_LIST lock.
C6_NoLockAcrossNetworkWait ==
    /\ \A h \in Handlers : hpc[h] \in NetWaits => todoLock # h
    /\ mainPc \in {"start_sending", "stop_sending"}
          => usersLock # "main" /\ todoLock # "main"
    /\ schedPc \in {"fetch", "sending"} => usersLock # "sched"

\* C7: once the command loop has ended, no snapshot is written before the
\* shutdown announcement is over, and main() does not end before the flush:
\* it never dies in the announcement.
C7_ShutdownReachesFlush ==
    /\ mainPc \in {"stop_bcast", "stop_sending"}
          => todoFile = Missing /\ usersFile = Missing
    /\ mainPanic # "stop_send"

\* C8: after a run that ended by writing both snapshots, the next start's load
\* of the files it wrote yields the TodoStore and the UsersSet of that run.
C8_SaveLoadRoundTrip ==
    (run > 1 /\ prevExit = "exited")
        => /\ (mainPc \in {"load_users", "start_bcast"} /\ todoFile.kind = "ok")
                  => todo = prevTodo
           /\ (mainPc = "start_bcast" /\ usersFile.kind = "ok")
                  => users = prevUsers

\* both collections came back after a restart: two chats with lists, one of
\* two tasks, one with a text that needs escaping, and a group chat registered
C8_Witness ==
    /\ run > 1
    /\ prevExit = "exited"
    /\ mainPc = "start_bcast"
    /\ todoFile.kind = "ok"
    /\ usersFile.kind = "ok"
    /\ DOMAIN todo = Chats
    /\ \E c \in Chats : Len(todo[c]) = 2 /\ todo[c][1] # todo[c][2]
    /\ -7 \in users

\* C9: a missing snapshot never fails the start and leaves its collection
\* empty, and it does not touch the other collection: with todo.json missing
\* the users written by the previous run are loaded, and the other way round.
C9_MissingSnapshotLoadsEmpty ==
    /\ todoFile.kind = "missing" => mainPanic # "load_todo"
    /\ usersFile.kind = "missing" => mainPanic # "load_users"
    /\ (run > 1 /\ mainPc \in {"load_users", "start_bcast"})
          => /\ todoFile.kind = "missing" => todo = EmptyStore
             /\ (usersFile.kind = "missing" /\ todoFile.kind = "ok"
                   /\ prevExit = "exited") => todo = prevTodo
    /\ (run > 1 /\ mainPc = "start_bcast")
          => /\ usersFile.kind = "missing" => users = {}
             /\ (todoFile.kind = "missing" /\ usersFile.kind = "ok"
                   /\ prevExit = "exited") => users = prevUsers

\* a restart that found neither file, after a run that had both collections
\* filled, has loaded and stands before the start broadcast
C9_Witness ==
    /\ run > 1
    /\ mainPc = "start_bcast"
    /\ todoFile.kind = "missing"
    /\ usersFile.kind = "missing"
    /\ prevTodo # EmptyStore
    /\ prevUsers # {}
    /\ todo = EmptyStore
    /\ users = {}

\* C10: no failure to read a snapshot ends the start: main() never panics
\* while it loads todo.json or users.txt.
C10_ReadFailureNotFatal == mainPanic \notin {"load_todo", "load_users"}

\* C11: whenever the scheduler computes its target, the target is strictly
\* later than now, on the calendar day right after now's date, at 08:00; also
\* when now is before 08:00 of its own day.
C11_TargetIsTomorrowAtEight ==
    [][(schedPc = "compute" /\ schedPc' = "sleep")
          => /\ wakeAt' > clock
             /\ DateOf(wakeAt') = DateOf(clock) + 1
             /\ wakeAt' % SlotsPerDay = TargetSlot]_vars

\* the scheduler sleeps on a target it computed before 08:00 of the start day
C11_Witness ==
    /\ schedPc = "sleep"
    /\ clock % SlotsPerDay < TargetSlot
    /\ DateOf(wakeAt) = DateOf(clock) + 1
    /\ fired = 0

\* C12: the external call of Cat, Define, Useless or Weather never ends in a
\* crash or in a return without a reply: after the call the handler sends the
\* result or, when the call failed, a failure text.
C12_ApiFailureIsAnswered ==
    [][\A h \in Handlers :
          hpc[h] = "fetch_wait"
              => hpc'[h] \in {"fetch_wait", "reply_wait", "fail_wait"}]_vars

\* C13: with Todo and List handlers of one chat running concurrently no append
\* is lost (the store holds, per chat, every text appended in this run, in
\* order), a List handler reads only while no append is in its critical
\* section and builds its reply from exactly the appends made so far, and an
\* append made after the read does not change a reply in flight.
C13_ConcurrentTodoAndList ==
    [][/\ \A c \in Chats : StoredList(todo', c) = applied'[c]
       /\ \A h \in Handlers :
             /\ (hpc[h] = "list_lock" /\ hpc'[h] = "reply_wait")
                   => /\ \A g \in Handlers : hpc[g] # "todo_wait"
                      /\ lines'[h] = Numbered(applied[hmsg[h].chat])
             /\ (hpc[h] = "reply_wait" /\ hpc'[h] = "reply_wait")
                   => lines'[h] = lines[h]]_vars

\* a List reply in flight that shows the one task appended before its read,
\* while another handler has appended a second task for the same chat and
\* still holds the lock
C13_Witness ==
    \E h, g \in Handlers :
        /\ hpc[h] = "reply_wait"
        /\ hmsg[h].kind = "list"
        /\ hpc[g] = "todo_wait"
        /\ hmsg[g].chat = hmsg[h].chat
        /\ Len(lines[h]) = 1
        /\ Len(StoredList(todo, hmsg[h].chat)) = 2

C15_BroadcastOncePerViewMember ==
    \A c \in Callers :
        /\ \A u \in Chats :
              bcast[c].got[u] <= (IF u \in bcast[c].view THEN 1 ELSE 0)
        /\ CallerPc(c) \in {"start_sending", "stop_sending", "sending"}
              => users = bcast[c].view
        /\ CallerPc(c) \notin {"start_sending", "stop_sending", "sending"}
              => \A u \in bcast[c].view : bcast[c].got[u] = 1

\* C16: registration precedes handling: a chat for which a task was appended
\* in this run, and the chat of every handler that is inside the match arm of
\* its command (before, in or after its reply), is in USERS_LIST; so is every
\* key of TODO_LIST, all of them created in this run.
C16_RegisteredBeforeHandled ==
    /\ \A c \in Chats : applied[c] # <<>> => c \in users
    /\ \A h \in Handlers :
          hpc[h] \in {"todo_lock", "todo_wait", "list_lock", "list_panicked",
                      "reply_wait", "fetch_wait", "fail_wait", "api_panicked"}
              => hmsg[h].chat \in users
    /\ DOMAIN todo \subseteq users

\* a chat whose greeting was never delivered has a task in the store and a
\* second command in its arm, while the other chat is not registered
C16_Witness ==
    \E c \in Chats, h \in Handlers :
        /\ greeted[c] = 0
        /\ c \in DOMAIN todo
        /\ hpc[h] = "list_lock"
        /\ hmsg[h].chat = c
        /\ users = {c}

\* C17: todo.json changes only in main's write of it and users.txt only in
\* main's write of it, both after the command loop has ended: no step of a
\* handler, of the scheduler or of a broadcast changes a snapshot, and until
\* main is past the shutdown announcement both are as the start found them
\* (missing).
C17_SnapshotsWrittenOnlyAtShutdown ==
    [][/\ todoFile' # todoFile => (mainPc = "save_todo" /\ mainPc' = "save_users")
       /\ usersFile' # usersFile => (mainPc = "save_users" /\ mainPc' = "exited")
       /\ mainPc' \in {"load_todo", "load_users", "start_bcast", "start_sending",
                       "repl", "stop_bcast", "stop_sending", "save_todo"}
             => (todoFile' = Missing /\ usersFile' = Missing)]_vars

\* the command loop has ended after a Todo command and a whole scheduler
\* cycle with its broadcast, the shutdown announcement is in flight, and
\* neither snapshot exists yet
C17_Witness ==
    /\ mainPc = "stop_sending"
    /\ Len(days.done) = 1
    /\ todo # EmptyStore
    /\ users # {}
    /\ todoFile = Missing
    /\ usersFile = Missing

\* C18: no task waits forever for a lock: a handler that waits for
\* USERS_LIST (the test, the insert) or for TODO_LIST (Todo, List), a caller
\* of send_to_all that waits for USERS_LIST, and main's flush that waits for
\* TODO_LIST and then, holding it, for USERS_LIST, each get the lock (or the
\* process has ended); and a handler at its test or insert holds no lock.
C18_NoTaskWaitsForeverForALock ==
    /\ [](\A h \in Handlers :
            hpc[h] \in {"check", "insert"} => (usersLock # h /\ todoLock # h))
    /\ \A h \in Handlers :
          \A pc \in {"check", "insert", "todo_lock", "list_lock"} :
              (hpc[h] = pc) ~> (hpc[h] # pc \/ ~Alive)
    /\ \A pc \in {"start_bcast", "stop_bcast", "save_todo", "save_users"} :
          (mainPc = pc) ~> (mainPc # pc)
    /\ (schedPc = "bcast") ~> (schedPc # "bcast" \/ ~Alive)

\* the flush holds TODO_LIST and waits for USERS_LIST, which the scheduler's
\* broadcast holds while a send is in flight
C18_Witness ==
    /\ mainPc = "save_users"
    /\ todoLock = "main"
    /\ usersLock = "sched"
    /\ schedPc = "sending"

\* C19: the push of a Todo handler for chat c with text t makes c's list its
\* old list (none: the empty one) followed by t, leaves every other list and
\* USERS_LIST as they were and adds no key but c; and in no step of a run
\* does a list lose a task or get one elsewhere than at its end, nor does
\* USERS_LIST lose a chat: it changes only by gaining the chat of a handler
\* at its insert.
C19_TodoOnlyAppendsToItsChat ==
    [][/\ \A h \in Handlers :
             (hpc[h] = "todo_lock" /\ hpc'[h] = "todo_wait")
                 => /\ DOMAIN todo' = DOMAIN todo \cup {hmsg[h].chat}
                    /\ todo'[hmsg[h].chat]
                          = Append(StoredList(todo, hmsg[h].chat), hmsg[h].task)
                    /\ \A d \in DOMAIN todo \ {hmsg[h].chat} : todo'[d] = todo[d]
                    /\ users' = users
       /\ \A d \in DOMAIN todo :
             /\ d \in DOMAIN todo'
             /\ Len(todo'[d]) >= Len(todo[d])
             /\ SubSeq(todo'[d], 1, Len(todo[d])) = todo[d]
       /\ users \subseteq users'
       /\ users' # users
             => \E h \in Handlers :
                   hpc[h] = "insert" /\ users' = users \cup {hmsg[h].chat}]_vars

\* a Todo handler has just pushed the second task of its chat while the other
\* chat has a list of its own
C19_Witness ==
    \E h \in Handlers, d \in Chats :
        /\ hpc[h] = "todo_wait"
        /\ d # hmsg[h].chat
        /\ d \in DOMAIN todo
        /\ Len(StoredList(todo, hmsg[h].chat)) = 2
        /\ todo[hmsg[h].chat][2] = hmsg[h].task
        /\ users = Chats

=============================================================================
